---- MODULE Spec2Model ----
(***************************************************************************)
(* OmniStudioIDE: the OmniScore compiler (src/services/omniParser.ts).     *)
(* Source text and tokens are TLA+ strings; the lexer, the string helpers  *)
(* and every parse function are translated from the TypeScript source.     *)
(* Token positions are 0-based as in the source (tokens[tokenIndex]).      *)
(* Intermediate results are handed on as operator arguments, so a value    *)
(* that the source binds to a local is an argument of the operator that    *)
(* continues the function.                                                 *)
(***************************************************************************)
EXTENDS Integers, Sequences, FiniteSets, TLC

(***************************************************************************)
(* Characters and JavaScript string helpers                                *)
(***************************************************************************)
\* s.substring(a - 1, b) with 1-based inclusive bounds, clipped to the string
Slice(s, a, b) ==
  IF a < 1 \/ a > b \/ a > Len(s) THEN ""
  ELSE SubSeq(s, a, IF b > Len(s) THEN Len(s) ELSE b)

\* s[i - 1], "" outside the string
Ch(s, i) == IF i < 1 \/ i > Len(s) THEN "" ELSE SubSeq(s, i, i)

Lower == {"a","b","c","d","e","f","g","h","i","j","k","l","m",
          "n","o","p","q","r","s","t","u","v","w","x","y","z"}
Upper == {"A","B","C","D","E","F","G","H","I","J","K","L","M",
          "N","O","P","Q","R","S","T","U","V","W","X","Y","Z"}
Digit == {"0","1","2","3","4","5","6","7","8","9"}
QUOTE == "\""

\* third alternative: \$[a-zA-Z_][a-zA-Z0-9_]*
IdentStart == Lower \cup Upper \cup {"_"}
IdentChars == IdentStart \cup Digit
\* fourth alternative: [a-zA-Z0-9_.\-+#]+
RunChars == Lower \cup Upper \cup Digit \cup {"_", ".", "-", "+", "#"}

\* String.prototype.startsWith / includes
StartsWith(s, p) == Len(s) >= Len(p) /\ SubSeq(s, 1, Len(p)) = p
Includes(s, c) == \E i \in 1..(Len(s) - Len(c) + 1) : SubSeq(s, i, i + Len(c) - 1) = c

\* least element of a set of positions, 0 when it is empty
Least(S) == IF S = {} THEN 0 ELSE CHOOSE j \in S : \A k \in S : j <= k

\* the element of a singleton.  Only({e(x) : x \in {v}}) is e(v) with v
\* evaluated once, however often e uses x: the `const x = v` of the code
Only(S) == CHOOSE r \in S : TRUE

\* position of the first occurrence of the one-character string c at or
\* after position i, 0 when there is none
IndexFrom(s, c, i) == Least({j \in i..Len(s) : SubSeq(s, j, j) = c})

\* s.replace(c, '') with a string pattern: removes the first occurrence only
RemoveFirst(s, c) ==
  Only({IF i = 0 THEN s ELSE SubSeq(s, 1, i - 1) \o SubSeq(s, i + 1, Len(s)) :
          i \in {IndexFrom(s, c, 1)}})

\* s.replace(/c/g, '') for a character set: removes every occurrence
RECURSIVE RemoveAll(_, _, _)
RemoveAll(s, cs, i) ==
  IF i > Len(s) THEN ""
  ELSE IF SubSeq(s, i, i) \in cs THEN RemoveAll(s, cs, i + 1)
  ELSE SubSeq(s, i, i) \o RemoveAll(s, cs, i + 1)

\* s.split(c) for a one-character separator; i is the position of the first c
RECURSIVE SplitAt(_, _, _)
SplitAt(s, c, i) ==
  IF i = 0 THEN <<s>>
  ELSE <<SubSeq(s, 1, i - 1)>>
         \o SplitAt(SubSeq(s, i + 1, Len(s)), c,
                    Least({j \in 1..(Len(s) - i) : SubSeq(s, i + j, i + j) = c}))

Split(s, c) == SplitAt(s, c, IndexFrom(s, c, 1))

LowerOf(c) ==
  CASE c = "A" -> "a" [] c = "B" -> "b" [] c = "C" -> "c" [] c = "D" -> "d"
    [] c = "E" -> "e" [] c = "F" -> "f" [] c = "G" -> "g" [] c = "H" -> "h"
    [] c = "I" -> "i" [] c = "J" -> "j" [] c = "K" -> "k" [] c = "L" -> "l"
    [] c = "M" -> "m" [] c = "N" -> "n" [] c = "O" -> "o" [] c = "P" -> "p"
    [] c = "Q" -> "q" [] c = "R" -> "r" [] c = "S" -> "s" [] c = "T" -> "t"
    [] c = "U" -> "u" [] c = "V" -> "v" [] c = "W" -> "w" [] c = "X" -> "x"
    [] c = "Y" -> "y" [] c = "Z" -> "z" [] OTHER -> c

RECURSIVE LowerFrom(_, _)
LowerFrom(s, i) ==
  IF i > Len(s) THEN "" ELSE LowerOf(SubSeq(s, i, i)) \o LowerFrom(s, i + 1)

\* s.toLowerCase()
ToLowerCase(s) == LowerFrom(s, 1)

WhiteSpace == {" ", "\n", "\t"}

\* s.trim()
RECURSIVE Trim(_)
Trim(s) ==
  IF Len(s) > 0 /\ SubSeq(s, 1, 1) \in WhiteSpace THEN Trim(SubSeq(s, 2, Len(s)))
  ELSE IF Len(s) > 0 /\ SubSeq(s, Len(s), Len(s)) \in WhiteSpace
       THEN Trim(SubSeq(s, 1, Len(s) - 1))
  ELSE s

\* ts.join(' ')
RECURSIVE Join(_, _)
Join(ts, i) ==
  IF i > Len(ts) THEN ""
  ELSE IF i = Len(ts) THEN ts[i]
  ELSE ts[i] \o " " \o Join(ts, i + 1)

(***************************************************************************)
(* JavaScript numbers.  Ticks and durations are IEEE doubles in the        *)
(* source; the model keeps the finite values it needs as integers and the  *)
(* three non-finite values as reserved integers outside the finite range.  *)
(***************************************************************************)
NaN == -99999999
Infinity == 99999998
NegInfinity == -99999998
IsFinite(x) == x \notin {NaN, Infinity, NegInfinity}

FAdd(a, b) ==
  IF a = NaN \/ b = NaN THEN NaN
  ELSE IF a = Infinity THEN (IF b = NegInfinity THEN NaN ELSE Infinity)
  ELSE IF a = NegInfinity THEN (IF b = Infinity THEN NaN ELSE NegInfinity)
  ELSE IF b = Infinity \/ b = NegInfinity THEN b
  ELSE a + b

FNeg(a) ==
  IF a = NaN THEN NaN
  ELSE IF a = Infinity THEN NegInfinity
  ELSE IF a = NegInfinity THEN Infinity
  ELSE -a

FMul(a, b) ==
  IF a = NaN \/ b = NaN THEN NaN
  ELSE IF a \notin {Infinity, NegInfinity} /\ b \notin {Infinity, NegInfinity}
       THEN a * b
  ELSE IF a = 0 \/ b = 0 THEN NaN
  ELSE IF (a > 0) = (b > 0) THEN Infinity
  ELSE NegInfinity

\* a <= b on doubles: false as soon as one side is NaN
FLe(a, b) == a # NaN /\ b # NaN /\ a <= b

DigitVal(c) ==
  CASE c = "0" -> 0 [] c = "1" -> 1 [] c = "2" -> 2 [] c = "3" -> 3
    [] c = "4" -> 4 [] c = "5" -> 5 [] c = "6" -> 6 [] c = "7" -> 7
    [] c = "8" -> 8 [] c = "9" -> 9

RECURSIVE DigitsValue(_, _, _)
DigitsValue(s, i, acc) ==
  IF i > Len(s) THEN acc
  ELSE IF SubSeq(s, i, i) \notin Digit THEN acc
  ELSE DigitsValue(s, i + 1, acc * 10 + DigitVal(SubSeq(s, i, i)))

\* the digits of s from position i on, NaN when there is none
ParseDigits(s, i) == IF Ch(s, i) \in Digit THEN DigitsValue(s, i, 0) ELSE NaN

\* parseInt(s, 10): leading white space is skipped, then an optional sign,
\* then the longest prefix of digits; NaN when there is no digit (also for
\* undefined, modelled as "")
ParseInt(s) ==
  Only({IF t = "" THEN NaN
        ELSE IF SubSeq(t, 1, 1) = "-" THEN FNeg(ParseDigits(t, 2))
        ELSE IF SubSeq(t, 1, 1) = "+" THEN ParseDigits(t, 2)
        ELSE ParseDigits(t, 1) :
          t \in {Trim(s)}})

(***************************************************************************)
(* Lexer                                                                   *)
(***************************************************************************)
\* end (inclusive) of the longest run of characters of cs starting at i
RECURSIVE RunEnd(_, _, _)
RunEnd(s, i, cs) ==
  IF i + 1 > Len(s) THEN i
  ELSE IF SubSeq(s, i + 1, i + 1) \in cs THEN RunEnd(s, i + 1, cs)
  ELSE i

\* source.replace(/%%.*$/gm, ''): drops from %% to the end of the line.
\* i is where the text still to copy starts, first the next %% (0: none)
\* and nl the end of its line (0: the text ends first).
RECURSIVE CopyUntil(_, _, _, _)
CopyUntil(s, i, first, nl) ==
  IF first = 0 THEN SubSeq(s, i, Len(s))
  ELSE IF nl = 0 THEN SubSeq(s, i, first - 1)
  ELSE SubSeq(s, i, first - 1)
         \o CopyUntil(s, nl,
                      Least({j \in nl..(Len(s) - 1) : SubSeq(s, j, j + 1) = "%%"}),
                      Least({k \in nl..Len(s) :
                               /\ SubSeq(s, k, k) = "\n"
                               /\ \E j \in nl..(k - 1) : SubSeq(s, j, j + 1) = "%%"}))

StripComments(s) ==
  CopyUntil(s, 1,
            Least({j \in 1..(Len(s) - 1) : SubSeq(s, j, j + 1) = "%%"}),
            Least({k \in 1..Len(s) :
                     /\ SubSeq(s, k, k) = "\n"
                     /\ \E j \in 1..(k - 1) : SubSeq(s, j, j + 1) = "%%"}))

\* end of the match of REGEX_TOKEN that starts at position i, whose
\* character is c; 0 when no alternative matches there:
\*   ([{}|,\[\]=():]) | ("[^"]*") | (\$[a-zA-Z_][a-zA-Z0-9_]*) | ([a-zA-Z0-9_.\-+#]+)
TokenEnd(s, i, c) ==
  IF c \in {"{", "}", "|", ",", "[", "]", "=", "(", ")", ":"} THEN i
  ELSE IF c = QUOTE THEN IndexFrom(s, QUOTE, i + 1)
  ELSE IF c = "$"
    THEN (IF Ch(s, i + 1) \in IdentStart THEN RunEnd(s, i + 1, IdentChars) ELSE 0)
  ELSE IF c \in RunChars THEN RunEnd(s, i, RunChars)
  ELSE 0

\* the next match at or after position i, as <<start, end>> (<<0, 0>>: no
\* more match); a character at which no alternative matches is skipped
NextMatch(s, i) ==
  Only({<<start, IF start = 0 THEN 0 ELSE TokenEnd(s, start, Ch(s, start))>> :
          start \in {Least({j \in i..Len(s) : TokenEnd(s, j, Ch(s, j)) # 0})}})

\* cleanCode.match(REGEX_TOKEN) || []: all matches, left to right, from the
\* match m on
RECURSIVE Matches(_, _)
Matches(s, m) ==
  IF m[1] = 0 THEN << >>
  ELSE <<SubSeq(s, m[1], m[2])>>
         \o Only({Matches(s, next) :
                    next \in {NextMatch(s, m[2] + 1)}})

\* s.match(REGEX_TOKEN): with the g flag, match starts at position 0 whatever
\* lastIndex holds and leaves lastIndex 0, so the regular expression the
\* parsers share carries nothing from one call to the next
REGEX_TOKEN(s) == Only({Matches(s, first) : first \in {NextMatch(s, 1)}})

Tokenize(src) == Only({REGEX_TOKEN(cleanCode) : cleanCode \in {StripComments(src)}})

(***************************************************************************)
(* Constants of the program                                                *)
(***************************************************************************)
TICKS_PER_QUARTER == 1920

\* VoiceCursor.duration and NoteEvent.duration are doubles counting quarter
\* notes; the model keeps them as integer multiples of 1/DUR_SCALE quarter
\* note, which is exact for the denominators 1..64 with up to two dots.
DUR_SCALE == 64

\* how far past the last token the model lets this.tokenIndex grow
MaxOverrun == 4

\* value of an absent property or missing array element
Undefined == "<undefined>"

STANDARD == "standard"
TAB == "tab"
GRID == "grid"

GM_DRUM_MAP ==
  [k |-> 36, s |-> 38, ss |-> 37, h |-> 42, ho |-> 46, ph |-> 44,
   c |-> 49, r |-> 51, rb |-> 53, t1 |-> 50, t2 |-> 47, t3 |-> 43]

GUITAR_STD_TUNING == <<"E2", "A2", "D3", "G3", "B3", "E4">>

(***************************************************************************)
(* Pitch and duration resolution                                           *)
(***************************************************************************)
\* alternatives of the second group of REGEX_PITCH, in the order written
Accidentals == <<"qs", "qf", "tqs", "tqf", "x", "bb", "b", "#", "n">>

\* s holds digits, and only digits, from position d to its end
DigitsFrom(s, d) == d <= Len(s) /\ \A j \in d..Len(s) : SubSeq(s, j, j) \in Digit

NoMatch == [ok |-> FALSE, acc |-> "", oct |-> ""]

\* (-?\d+)?$ of REGEX_PITCH at position i, after the accidental text acc
OctaveAt(s, i, acc) ==
  IF i > Len(s) THEN [ok |-> TRUE, acc |-> acc, oct |-> ""]
  ELSE IF DigitsFrom(s, IF SubSeq(s, i, i) = "-" THEN i + 1 ELSE i)
       THEN [ok |-> TRUE, acc |-> acc, oct |-> SubSeq(s, i, Len(s))]
  ELSE NoMatch

\* (qs|qf|...)* of REGEX_PITCH at position i, case-insensitive, greedy with
\* backtracking: alternative k is taken when the rest matches after it,
\* otherwise the next alternative is tried, and after the last one the
\* octave.  acc is the text of the last repetition, "" when there is none.
RECURSIVE AccidentalsAt(_, _, _, _)
AccidentalsAt(s, i, last, k) ==
  IF k > Len(Accidentals) THEN OctaveAt(s, i, last)
  ELSE IF ToLowerCase(Slice(s, i, i + Len(Accidentals[k]) - 1)) = Accidentals[k]
       THEN Only({IF rest.ok THEN rest ELSE AccidentalsAt(s, i, last, k + 1) :
                    rest \in {AccidentalsAt(s, i + Len(Accidentals[k]),
                                             Slice(s, i, i + Len(Accidentals[k]) - 1),
                                             1)}})
  ELSE AccidentalsAt(s, i, last, k + 1)

\* pitch.match(REGEX_PITCH): /^([a-g])(qs|qf|tqs|tqf|x|bb|b|#|n)*(-?\d+)?$/i
REGEX_PITCH(pitch) ==
  IF LowerOf(Ch(pitch, 1)) \in {"a", "b", "c", "d", "e", "f", "g"}
  THEN AccidentalsAt(pitch, 2, "", 1)
  ELSE NoMatch

baseMap == [c |-> 0, d |-> 2, e |-> 4, f |-> 5, g |-> 7, a |-> 9, b |-> 11]

MidiIn(semitone, octave) ==
  [midi |-> (octave + 1) * 12 + semitone, octave |-> octave]

\* the lowest C, MIDI 0, whatever the pitch text
LowestPitch(match, step, lastOctave) == MidiIn(0, -1)

MidiOf(match, step, lastOctave) ==
  IF ~match.ok THEN [midi |-> 60, octave |-> 4]
  ELSE MidiIn(baseMap[step]
                + (IF match.acc = "#" THEN 1 ELSE 0)
                - (IF match.acc = "b" THEN 1 ELSE 0)
                + (IF match.acc = "x" THEN 2 ELSE 0)
                - (IF match.acc = "bb" THEN 2 ELSE 0),
              IF match.oct # "" THEN ParseInt(match.oct) ELSE lastOctave)

parsePitchToMidi(pitch, lastOctave) ==
  Only({MidiOf(match, LowerOf(Ch(pitch, 1)), lastOctave) :
          match \in {REGEX_PITCH(pitch)}})

NoPitch(octave) == [octave |-> octave, pitches |-> << >>]

\* the tab branch of resolvePitch after the split of `fret-string`
TabString(fret, str, octave) ==
  IF str # NaN /\ (Len(GUITAR_STD_TUNING) - str + 1) \in 1..Len(GUITAR_STD_TUNING)
  THEN [octave |-> octave,
        pitches |-> <<FAdd(parsePitchToMidi(
                             GUITAR_STD_TUNING[Len(GUITAR_STD_TUNING) - str + 1],
                             4).midi, fret)>>]
  ELSE NoPitch(octave)

TabPitch(parts, octave) ==
  IF Len(parts) = 2
  THEN Only({TabString(n[1], n[2], octave) :
               n \in {<<ParseInt(parts[1]), ParseInt(parts[2])>>}})
  ELSE NoPitch(octave)

\* resolvePitch: the octave the cursor holds afterwards and the pitches
\* (the MIDI numbers of the `midi:<n>` strings) added to the event.
\* inst.tuning is never set, and inst.map is GM_DRUM_MAP whenever it is set.
resolvePitch(p, inst, cursorOctave) ==
  IF inst.style = TAB
    THEN Only({TabPitch(parts, cursorOctave) :
                 parts \in {Split(p, "-")}})
  ELSE IF inst.style = GRID
    THEN (IF p \in DOMAIN GM_DRUM_MAP
          THEN [octave |-> cursorOctave, pitches |-> <<GM_DRUM_MAP[p]>>]
          ELSE NoPitch(cursorOctave))
  ELSE Only({[octave |-> r.octave, pitches |-> <<r.midi>>] :
               r \in {parsePitchToMidi(p, cursorOctave)}})

\* x * n / d on a double holding a multiple of 1/DUR_SCALE
Scale(x, n, d) ==
  IF x \in {NaN, Infinity, NegInfinity} THEN x ELSE (x * n) \div d

\* 4 / parseInt(clean, 10)
DurationBase(n) ==
  IF n = NaN THEN NaN
  ELSE IF n = 0 THEN Infinity
  ELSE (4 * DUR_SCALE) \div n

\* dotCount = (str.match(/\./g) || []).length
Dotted(str, base) ==
  Only({IF dotCount = 1 THEN Scale(base, 3, 2)
        ELSE IF dotCount = 2 THEN Scale(base, 7, 4)
        ELSE base :
          dotCount \in {Cardinality({i \in 1..Len(str) : SubSeq(str, i, i) = "."})}})

parseDurationVal(str) ==
  Only({Dotted(str, base) :
          base \in {DurationBase(ParseInt(RemoveAll(str, {"."}, 1)))}})

\* cursor.duration * TICKS_PER_QUARTER
DurationTicks(duration) == Scale(duration, TICKS_PER_QUARTER, DUR_SCALE)

(***************************************************************************)
(* Events                                                                  *)
(***************************************************************************)
\* token.split(/(?<!:[\d])\./): splits at every '.' that does not directly
\* follow a ':' and one digit
RECURSIVE SplitDots(_, _, _)
SplitDots(s, i, start) ==
  IF i > Len(s) THEN <<Slice(s, start, Len(s))>>
  ELSE IF SubSeq(s, i, i) = "." /\ ~(Ch(s, i - 2) = ":" /\ Ch(s, i - 1) \in Digit)
       THEN <<Slice(s, start, i - 1)>> \o SplitDots(s, i + 1, i + 1)
  ELSE SplitDots(s, i + 1, start)

\* inner.split(/\s+/)
RECURSIVE SplitSpaces(_, _, _)
SplitSpaces(s, i, start) ==
  IF i > Len(s) THEN <<Slice(s, start, Len(s))>>
  ELSE IF SubSeq(s, i, i) \in WhiteSpace
       THEN <<Slice(s, start, i - 1)>>
              \o SplitSpaces(s, RunEnd(s, i, WhiteSpace) + 1,
                             RunEnd(s, i, WhiteSpace) + 1)
  ELSE SplitSpaces(s, i + 1, start)

\* Number(a) for the argument texts of a modifier, t being a.trim(): 0 for
\* the empty text, the value of a decimal integer literal, NaN otherwise
NumberOf(t) ==
  IF t = "" THEN 0
  ELSE IF DigitsFrom(t, IF SubSeq(t, 1, 1) \in {"-", "+"} THEN 2 ELSE 1)
       THEN ParseInt(t)
  ELSE NaN

\* one element of Attribute.args: isNaN(Number(a)) ? a : Number(a)
AttrArg(n, a) ==
  IF n = NaN THEN [isNumber |-> FALSE, num |-> 0, str |-> a]
  ELSE [isNumber |-> TRUE, num |-> n, str |-> ""]

AttrArgs(args) ==
  [i \in 1..Len(args) |->
     Only({AttrArg(n, args[i]) :
             n \in {NumberOf(Trim(args[i]))}})]

\* the callback of attrStrings.map in parseEvent
Attribute(s) ==
  IF Includes(s, "(")
  THEN Only({[name |-> sp[1],
              args |-> AttrArgs(Split(RemoveFirst(sp[2], ")"), ","))] :
               sp \in {Split(s, "(")}})
  ELSE [name |-> s, args |-> << >>]

\* pTokens.forEach(p => this.resolvePitch(p, inst, cursor, event))
RECURSIVE ResolveAll(_, _, _, _, _)
ResolveAll(pTokens, i, inst, octave, pitches) ==
  IF i > Len(pTokens) THEN [octave |-> octave, pitches |-> pitches]
  ELSE Only({ResolveAll(pTokens, i + 1, inst, r.octave, pitches \o r.pitches) :
               r \in {resolvePitch(pTokens[i], inst, octave)}})

WithType(type, r) == [type |-> type, octave |-> r.octave, pitches |-> r.pitches]

\* the type and pitches of the event, and the octave of the cursor afterwards
ResolveEvent(pitchStr, inst, octave) ==
  IF pitchStr \in {"r", "s"} THEN WithType("rest", NoPitch(octave))
  ELSE IF StartsWith(pitchStr, "[")
    THEN Only({Only({WithType("chord", r) :
                       r \in {ResolveAll(pTokens, 1, inst, octave, << >>)}}) :
                 pTokens \in {SplitSpaces(RemoveAll(pitchStr, {"[", "]"}, 1), 1, 1)}})
  ELSE Only({WithType("note", r) :
               r \in {resolvePitch(pitchStr, inst, octave)}})

\* attributes.find(a => a.name === 'vol' || a.name === 'vel'), at index i
\* (0: none): velocity = args[0] / 127 when args[0] is a number, <<args[0],
\* 127>> as a fraction; else the 0.8 every event starts with
VelocityOf(attributes, i) ==
  IF i # 0 /\ Len(attributes[i].args) > 0 /\ attributes[i].args[1].isNumber
  THEN <<attributes[i].args[1].num, 127>>
  ELSE <<4, 5>>

\* the event pushed on the timeline, the cursor after it and the argument of
\* onAdvance (0 when the callback is not called)
EmitEvent(resolved, duration, isGrace, velocity, attributes, inst, voiceId, tickStart, cursor, cursors, tl) ==
  [cursors |-> [cursors EXCEPT ![inst.id][voiceId] =
                  [octave |-> resolved.octave, duration |-> duration,
                   tick |-> cursor.tick]],
   timeline |-> Append(tl,
     [type |-> resolved.type,
      pitches |-> resolved.pitches,
      duration |-> IF isGrace THEN 0 ELSE duration,
      tickStart |-> tickStart,
      tickEnd |-> IF isGrace THEN tickStart
                  ELSE FAdd(tickStart, DurationTicks(duration)),
      velocity |-> velocity,
      instrumentId |-> inst.id,
      voiceId |-> voiceId,
      modifiers |-> attributes]),
   advance |-> IF isGrace THEN 0 ELSE DurationTicks(duration)]

\* parseEvent after core.split(':') and the mapping of the attributes
EventFromCore(durSplit, attributes, inst, voiceId, tickStart, cursor, cursors, tl) ==
  Only({EmitEvent(v[1], v[2], v[3], v[4], attributes, inst, voiceId,
                  tickStart, cursor, cursors, tl) :
          v \in {<<ResolveEvent(durSplit[1], inst, cursor.octave),
                   IF Len(durSplit) >= 2 /\ durSplit[2] # ""
                   THEN parseDurationVal(durSplit[2]) ELSE cursor.duration,
                   \E i \in 1..Len(attributes) : attributes[i].name = "grace",
                   VelocityOf(attributes,
                              Least({i \in 1..Len(attributes) :
                                       attributes[i].name \in {"vol", "vel"}}))>>}})

\* parseEvent after the split of the token at its dots
EventFromParts(parts, inst, voiceId, tickStart, cursors, tl) ==
  Only({EventFromCore(v[1], v[2], inst, voiceId, tickStart,
                      cursors[inst.id][voiceId], cursors, tl) :
          v \in {<<Split(parts[1], ":"),
                   [i \in 1..(Len(parts) - 1) |-> Attribute(parts[i + 1])]>>}})

\* parseEvent.  cursors is globalCursors and tl the timeline; the result is
\* their new values and `advance`, the argument onAdvance is called with
\* (0 when the callback is not called).
parseEvent(token, inst, voiceId, baseTick, relativeTick, cursors, tl) ==
  IF token \in {"|", "{", "}", "]"}
  THEN [cursors |-> cursors, timeline |-> tl, advance |-> 0]
  ELSE Only({EventFromParts(v[1], inst, voiceId, v[2], cursors, tl) :
               v \in {<<SplitDots(token, 1, 1), FAdd(baseTick, relativeTick)>>}})

(***************************************************************************)
(* Macro expansion                                                         *)
(***************************************************************************)
\* \b between positions i and i + 1 of s
WordBoundary(s, i) == (Ch(s, i) \in IdentChars) # (Ch(s, i + 1) \in IdentChars)

\* body.replace(new RegExp(`\\$${p}\\b`, 'g'), arg), pat being "$" + p
RECURSIVE ReplaceParam(_, _, _, _)
ReplaceParam(body, i, pat, arg) ==
  IF i > Len(body) THEN ""
  ELSE IF Slice(body, i, i + Len(pat) - 1) = pat
          /\ WordBoundary(body, i + Len(pat) - 1)
       THEN arg \o ReplaceParam(body, i + Len(pat), pat, arg)
  ELSE SubSeq(body, i, i) \o ReplaceParam(body, i + 1, pat, arg)

\* def.params.forEach((p, i) => body = body.replace(..., args[i] || ''))
RECURSIVE SubstituteParams(_, _, _, _)
SubstituteParams(body, params, args, i) ==
  IF i > Len(params) THEN body
  ELSE SubstituteParams(
         ReplaceParam(body, 1, "$" \o params[i],
                      IF i <= Len(args) THEN args[i] ELSE ""),
         params, args, i + 1)

\* for (const t of macroTokens) this.parseEvent(t, ..., baseTick, 0, advanceTick)
\* acc carries cursors, timeline and the sum of the advanceTick arguments
RECURSIVE MacroEvents(_, _, _, _, _, _)
MacroEvents(macroTokens, i, inst, voiceId, baseTick, acc) ==
  IF i > Len(macroTokens) THEN acc
  ELSE Only({Only({MacroEvents(macroTokens, i + 1, inst, voiceId, baseTick, next) :
                       next \in {[cursors |-> r.cursors, timeline |-> r.timeline,
                                  advance |-> FAdd(acc.advance, r.advance)]}}) :
               r \in {parseEvent(macroTokens[i], inst, voiceId, baseTick, 0,
                                 acc.cursors, acc.timeline)}})

\* name and args of handleMacro from token.substring(1)
MacroCall(raw) ==
  IF Includes(raw, "(")
  THEN Only({[name |-> parts[1], args |-> Split(RemoveFirst(parts[2], ")"), ",")] :
               parts \in {Split(raw, "(")}})
  ELSE [name |-> raw, args |-> << >>]

\* an expansion that runs over the tokens of the body a second time
RepeatedExpansion(call, inst, voiceId, baseTick, macroTable, unchanged) ==
  IF call.name \notin DOMAIN macroTable THEN unchanged
  ELSE Only({MacroEvents(macroTokens \o macroTokens, 1, inst, voiceId, baseTick,
                         unchanged) :
               macroTokens \in {REGEX_TOKEN(macroTable[call.name].body)}})

\* the names every object inherits from Object.prototype: this.macros is a
\* plain object, so this.macros[name] is a function or an object for them
ObjectPrototype ==
  {"constructor", "toString", "toLocaleString", "valueOf", "hasOwnProperty",
   "isPrototypeOf", "propertyIsEnumerable", "__proto__", "__defineGetter__",
   "__defineSetter__", "__lookupGetter__", "__lookupSetter__"}

\* const def = this.macros[name]; if (!def) return; def.params.forEach(...)
\* an inherited def has no params: forEach of undefined is a TypeError
ExpandMacro(call, inst, voiceId, baseTick, macroTable, unchanged) ==
  IF call.name \notin DOMAIN macroTable
  THEN (IF call.name \in ObjectPrototype
        THEN [thrown |-> "Cannot read properties of undefined (reading 'forEach')"]
        ELSE unchanged)
  ELSE Only({MacroEvents(macroTokens, 1, inst, voiceId, baseTick, unchanged) :
               macroTokens \in {REGEX_TOKEN(SubstituteParams(
                                  macroTable[call.name].body,
                                  macroTable[call.name].params, call.args, 1))}})

handleMacro(token, inst, voiceId, baseTick, macroTable, cursors, tl) ==
  Only({ExpandMacro(call, inst, voiceId, baseTick, macroTable,
                    [cursors |-> cursors, timeline |-> tl, advance |-> 0]) :
          call \in {MacroCall(Slice(token, 2, Len(token)))}})

(***************************************************************************)
(* Finalization                                                            *)
(***************************************************************************)
\* the comparator (a, b) => a.tickStart - b.tickStart returned d: a sorts
\* after b when d is positive (NaN counts as 0)
ComesAfter(a, b) ==
  \E d \in {FAdd(a.tickStart, FNeg(b.tickStart))} : d # NaN /\ d > 0

\* a sorts before b, at positions i and j of the unsorted timeline:
\* Array.prototype.sort is stable, so elements the comparator does not order
\* keep their relative position
Before(tl, i, j) ==
  \/ ComesAfter(tl[j], tl[i])
  \/ ~ComesAfter(tl[i], tl[j]) /\ i < j

\* this.score.timeline.sort((a, b) => a.tickStart - b.tickStart)
SortTimeline(tl) ==
  [k \in 1..Len(tl) |->
     tl[CHOOSE i \in 1..Len(tl) :
          Cardinality({j \in 1..Len(tl) : Before(tl, j, i)}) + 1 = k]]

\* the comparator is not a consistent comparator for tl: an event with a NaN
\* tickStart compares equal to two events of which one sorts after the other.
\* The order Array.prototype.sort leaves is then implementation-defined.
Inconsistent(tl) ==
  \E i, j, k \in 1..Len(tl) : tl[i].tickStart = NaN /\ ComesAfter(tl[j], tl[k])

\* tl in the order p
Reorder(tl, p) == [i \in 1..Len(tl) |-> tl[p[i]]]

(***************************************************************************)
(* State of an OmniParser during parse()                                   *)
(***************************************************************************)
VARIABLES
  source,         \* this.source
  tokens,         \* this.tokens
  tokenIndex,     \* this.tokenIndex
  meta,           \* this.score.meta
  instruments,    \* this.score.instruments
  timeline,       \* this.score.timeline
  durationTicks,  \* this.score.durationTicks
  macros,         \* this.macros
  currentGroup,   \* this.currentGroup
  globalCursors,  \* this.globalCursors
  stack,          \* call stack: one frame per active function, innermost last
  score,          \* the App's score state
  error,          \* the App's error state
  engine,         \* the App's AudioEngine, engineRef.current
  requests,       \* history: code and outcome of every finished handleCompile
  returned,       \* history: the scores the earlier parse() calls of this
                  \* parser returned, as they were on return
  currentTick,    \* the App's currentTick state: the tick onTick reported last
  elapsed,        \* ctx.currentTime - this.startTime, in units of the
                  \* engine's lookahead (0.1 s), as of the last scheduler run
  pending,        \* the timers of window.setTimeout that have not fired and
                  \* are not cleared
  scheduled       \* history: the timeline indices passed to scheduleNote
                  \* since the last stop() or loadScore(), once and again

app == <<score, error, engine, requests, currentTick, elapsed, pending,
         scheduled>>

vars == <<source, tokens, tokenIndex, meta, instruments, timeline,
          durationTicks, macros, currentGroup, globalCursors, stack,
          score, error, engine, requests, returned, currentTick, elapsed,
          pending, scheduled>>

\* this.tokens[i] || ""
TokenAt(toks, i) == IF i >= 0 /\ i < Len(toks) THEN toks[i + 1] ELSE ""

peek == TokenAt(tokens, tokenIndex)

\* this.tokenIndex++ in a loop that consumes without checking for the end of
\* the tokens.  The index grows without bound there; every index at or past
\* the end reads "", so the model keeps it within MaxOverrun of the end.
Overrun(i) == IF i >= Len(tokens) + MaxOverrun THEN Len(tokens) ELSE i + 1

Top == stack[Len(stack)]
Running(fn) == Len(stack) > 0 /\ Top.fn = fn
Pop == SubSeq(stack, 1, Len(stack) - 1)
Goto(frame) == [stack EXCEPT ![Len(stack)] = frame]
Call(caller, callee) == Append(Goto(caller), callee)

EmptyMap == [x \in {} |-> Undefined]
Put(map, key, value) ==
  [x \in DOMAIN map \cup {key} |-> IF x = key THEN value ELSE map[x]]

(***************************************************************************)
(* parse(): tokenizing and the root block                                  *)
(***************************************************************************)
StartParse(toks) ==
  /\ tokens' = toks
  /\ IF TokenAt(toks, 0) = "omniscore"
     THEN IF TokenAt(toks, 1) = "{"
          THEN /\ tokenIndex' = 2
               /\ stack' = Call([fn |-> "parse", pc |-> "closeRoot"],
                                [fn |-> "parseBody"])
          ELSE /\ tokenIndex' = 1
               /\ stack' = Goto([fn |-> "parse", pc |-> "finalize"])
     ELSE /\ tokenIndex' = 0
          /\ stack' = Call([fn |-> "parse", pc |-> "finalize"],
                           [fn |-> "parseBody"])

Parse ==
  /\ Running("parse") /\ Top.pc = "start"
  /\ \E toks \in {Tokenize(source)} : StartParse(toks)
  /\ UNCHANGED <<app, returned>>
  /\ UNCHANGED <<source, meta, instruments, timeline, durationTicks, macros,
                 currentGroup, globalCursors>>

\* the dispatch of parseBody on the lower-cased token t
Dispatch(t) ==
  IF t = "meta"
    THEN /\ stack' = Append(stack, [fn |-> "parseMetaBlock", pc |-> "entry"])
         /\ UNCHANGED tokenIndex
  ELSE IF t = "macro"
    THEN /\ stack' = Append(stack, [fn |-> "parseMacroDef"])
         /\ UNCHANGED tokenIndex
  ELSE IF t = "group"
    THEN /\ stack' = Append(stack, [fn |-> "parseGroup", pc |-> "entry"])
         /\ UNCHANGED tokenIndex
  ELSE IF t = "def"
    THEN /\ stack' = Append(stack, [fn |-> "parseDef"])
         /\ UNCHANGED tokenIndex
  ELSE IF t = "measure"
    THEN /\ stack' = Append(stack, [fn |-> "parseMeasure", pc |-> "entry"])
         /\ UNCHANGED tokenIndex
  ELSE /\ tokenIndex' = tokenIndex + 1
       /\ UNCHANGED stack

\* one iteration of the while loop of parseBody, or its exit
ParseBody ==
  /\ Running("parseBody")
  /\ IF tokenIndex < Len(tokens) /\ peek # "}"
     THEN Dispatch(ToLowerCase(peek))
     ELSE /\ stack' = Pop
          /\ UNCHANGED tokenIndex
  /\ UNCHANGED <<app, returned>>
  /\ UNCHANGED <<source, tokens, meta, instruments, timeline, durationTicks,
                 macros, currentGroup, globalCursors>>

(***************************************************************************)
(* parseMetaBlock                                                          *)
(***************************************************************************)
\* SetTime without the isNaN guard
SetTimeUnguarded(m, n, d) == [m EXCEPT !.timeSignature = <<n, d>>]

SetTime(m, n, d) ==
  IF n # NaN /\ d # NaN THEN [m EXCEPT !.timeSignature = <<n, d>>] ELSE m

\* the `time` branch after cleanVal.split('/'); parseInt(undefined) is NaN
ApplyTime(m, parts) ==
  Only({SetTime(m, v[1], v[2]) :
          v \in {<<ParseInt(parts[1]),
                   IF Len(parts) >= 2 THEN ParseInt(parts[2]) ELSE NaN>>}})

ApplyCleanMeta(m, lowerKey, cleanVal) ==
  IF lowerKey = "title" THEN [m EXCEPT !.title = cleanVal]
  ELSE IF lowerKey = "composer" THEN [m EXCEPT !.composer = cleanVal]
  ELSE IF lowerKey = "tempo" THEN [m EXCEPT !.tempo = ParseInt(cleanVal)]
  ELSE IF lowerKey = "key" THEN [m EXCEPT !.key = cleanVal]
  ELSE IF lowerKey = "time"
    THEN Only({ApplyTime(m, parts) :
                 parts \in {Split(cleanVal, "/")}})
  ELSE m

\* the assignments of one key/value pair of a meta block
ApplyMeta(m, key, val) ==
  Only({ApplyCleanMeta(m, v[1], v[2]) :
          v \in {<<ToLowerCase(key), RemoveAll(val, {QUOTE}, 1)>>}})

\* the value of a pair starts at token i1
MetaValue(key, i1) ==
  /\ tokenIndex' = i1 + 1
  /\ stack' = Goto([fn |-> "parseMetaBlock", pc |-> "value",
                    key |-> key, val |-> TokenAt(tokens, i1)])

ParseMetaBlock ==
  /\ Running("parseMetaBlock")
  /\ IF Top.pc = "entry"
     THEN \* consume 'meta'; if (!this.match('{')) return
          /\ IF TokenAt(tokens, tokenIndex + 1) = "{"
             THEN /\ tokenIndex' = tokenIndex + 2
                  /\ stack' = Goto([fn |-> "parseMetaBlock", pc |-> "loop"])
             ELSE /\ tokenIndex' = tokenIndex + 1
                  /\ stack' = Pop
          /\ UNCHANGED meta
     ELSE IF Top.pc = "loop"
     THEN IF peek # "}" /\ tokenIndex < Len(tokens)
          THEN \* key, optional ':', first token of the value
               /\ \E key \in {RemoveFirst(peek, ":")} :
                    MetaValue(key, IF TokenAt(tokens, tokenIndex + 1) = ":"
                                   THEN tokenIndex + 2 ELSE tokenIndex + 1)
               /\ UNCHANGED meta
          ELSE \* consume '}' and return
               /\ tokenIndex' = tokenIndex + 1
               /\ stack' = Pop
               /\ UNCHANGED meta
     ELSE \* pc = "value"
          IF StartsWith(Top.val, "[") /\ SubSeq(Top.val, Len(Top.val), Len(Top.val)) # "]"
          THEN \* while (!val.endsWith(']')) val += this.consume()
               /\ tokenIndex' = Overrun(tokenIndex)
               /\ stack' = Goto([Top EXCEPT !.val = Top.val \o peek])
               /\ UNCHANGED meta
          ELSE /\ meta' = ApplyMeta(meta, Top.key, Top.val)
               /\ tokenIndex' = IF peek = "," THEN tokenIndex + 1 ELSE tokenIndex
               /\ stack' = Goto([fn |-> "parseMetaBlock", pc |-> "loop"])
  /\ UNCHANGED <<app, returned>>
  /\ UNCHANGED <<source, tokens, instruments, timeline, durationTicks, macros,
                 currentGroup, globalCursors>>

(***************************************************************************)
(* parseMacroDef                                                           *)
(***************************************************************************)
Balance(t, balance) ==
  IF t = "{" THEN balance + 1
  ELSE IF t = "}" THEN balance - 1
  ELSE balance

\* the balance loop of parseMacroDef from token i on: the index reached and
\* the body tokens collected
RECURSIVE MacroBody(_, _, _, _)
MacroBody(toks, i, balance, bodyTokens) ==
  IF balance > 0 /\ i < Len(toks)
  THEN Only({MacroBody(toks, i + 1, b,
                       IF b > 0 THEN Append(bodyTokens, TokenAt(toks, i))
                       ELSE bodyTokens) :
               b \in {Balance(TokenAt(toks, i), balance)}})
  ELSE [index |-> i, bodyTokens |-> bodyTokens]

\* name and params of parseMacroDef from the token after `macro`
MacroSignature(sig) ==
  IF Includes(sig, "(")
  THEN Only({[name |-> parts[1],
              params |-> [i \in 1..Len(ps) |-> Trim(ps[i])]] :
               parts \in {Split(sig, "(")},
               ps \in {Split(RemoveFirst(Split(sig, "(")[2], ")"), ",")}})
  ELSE [name |-> sig, params |-> << >>]

StoreMacro(sig, captured) ==
  /\ tokenIndex' = captured.index
  /\ macros' = Put(macros, sig.name,
                   [params |-> sig.params, body |-> Join(captured.bodyTokens, 1)])

\* parseMacroDef from this.match('=') on, i1 being the index after it
DefineMacro(sig, i1) ==
  IF TokenAt(tokens, i1) # "{"
  THEN /\ tokenIndex' = i1
       /\ UNCHANGED macros
  ELSE \E captured \in {MacroBody(tokens, i1 + 1, 1, << >>)} :
         StoreMacro(sig, captured)

ParseMacroDef ==
  /\ Running("parseMacroDef")
  /\ \E sig \in {MacroSignature(TokenAt(tokens, tokenIndex + 1))} :
       DefineMacro(sig, IF TokenAt(tokens, tokenIndex + 2) = "="
                        THEN tokenIndex + 3 ELSE tokenIndex + 2)
  /\ stack' = Pop
  /\ UNCHANGED <<app, returned>>
  /\ UNCHANGED <<source, tokens, meta, instruments, timeline, durationTicks,
                 currentGroup, globalCursors>>

(***************************************************************************)
(* parseGroup and parseDef                                                 *)
(***************************************************************************)
ParseGroup ==
  /\ Running("parseGroup")
  /\ IF Top.pc = "entry"
     THEN \* consume 'group' and the label
          /\ tokenIndex' = tokenIndex + 2
          /\ stack' = Goto([fn |-> "parseGroup", pc |-> "attributes"])
          /\ UNCHANGED currentGroup
     ELSE IF Top.pc = "attributes"
     THEN IF peek # "{"
          THEN \* while (this.peek() !== '{') this.consume()
               /\ tokenIndex' = Overrun(tokenIndex)
               /\ UNCHANGED <<stack, currentGroup>>
          ELSE /\ tokenIndex' = tokenIndex + 1
               /\ currentGroup' = "Group"
               /\ stack' = Goto([fn |-> "parseGroup", pc |-> "body"])
     ELSE \* pc = "body"
          IF peek # "}" /\ tokenIndex < Len(tokens)
          THEN IF ToLowerCase(peek) = "def"
               THEN /\ stack' = Append(stack, [fn |-> "parseDef"])
                    /\ UNCHANGED <<tokenIndex, currentGroup>>
               ELSE /\ tokenIndex' = tokenIndex + 1
                    /\ UNCHANGED <<stack, currentGroup>>
          ELSE /\ tokenIndex' = tokenIndex + 1
               /\ currentGroup' = Undefined
               /\ stack' = Pop
  /\ UNCHANGED <<app, returned>>
  /\ UNCHANGED <<source, tokens, meta, instruments, timeline, durationTicks,
                 macros, globalCursors>>

\* parseFloat(v) for the decimal integer texts the model carries
ParseFloat(v) == ParseInt(v)

SetAttr(inst, k, v) ==
  IF k = "style" THEN [inst EXCEPT !.style = v]
  ELSE IF k = "clef" THEN [inst EXCEPT !.clef = v]
  ELSE IF k = "transpose" THEN [inst EXCEPT !.transpose = ParseInt(v)]
  ELSE IF k = "patch" THEN [inst EXCEPT !.patch = v]
  ELSE IF k = "vol" THEN [inst EXCEPT !.vol = ParseFloat(v)]
  ELSE IF k = "pan" THEN [inst EXCEPT !.pan = ParseFloat(v)]
  ELSE IF k = "map" /\ v = "gm_kit" THEN [inst EXCEPT !.map = "GM_DRUM_MAP"]
  ELSE inst

ApplyKeyValue(inst, kv) ==
  Only({SetAttr(inst, v[1], v[2]) :
          v \in {<<ToLowerCase(kv[1]), RemoveAll(kv[2], {QUOTE}, 1)>>}})

\* the assignments of one attribute of a def: let [k, v] = attr.split('=')
ApplyAttr(inst, attr) == Only({ApplyKeyValue(inst, kv) : kv \in {Split(attr, "=")}})

\* the while (true) loop of parseDef from token i on
RECURSIVE DefAttributes(_, _, _)
DefAttributes(toks, i, inst) ==
  IF \/ ToLowerCase(TokenAt(toks, i))
          \in {"def", "group", "measure", "meta", "macro", "}", "{"}
     \/ TokenAt(toks, i) = ""
  THEN [index |-> i, inst |-> inst]
  ELSE IF ~Includes(TokenAt(toks, i), "=")
  THEN [index |-> i + 1, inst |-> inst]
  ELSE Only({DefAttributes(toks, i + 1, changed) :
               changed \in {ApplyAttr(inst, TokenAt(toks, i))}})

PushInstrument(id, r) ==
  /\ tokenIndex' = r.index
  /\ instruments' = Append(instruments, r.inst)
  /\ globalCursors' = Put(globalCursors, id, EmptyMap)

DefineInstrument(id, quoted) ==
  \E r \in {DefAttributes(tokens,
               IF quoted THEN tokenIndex + 3 ELSE tokenIndex + 2,
               [id |-> id,
                label |-> IF quoted
                          THEN RemoveAll(TokenAt(tokens, tokenIndex + 2), {QUOTE}, 1)
                          ELSE id,
                style |-> STANDARD, group |-> currentGroup, clef |-> Undefined,
                transpose |-> Undefined, patch |-> Undefined, vol |-> Undefined,
                pan |-> Undefined, map |-> Undefined])} :
    PushInstrument(id, r)

ParseDef ==
  /\ Running("parseDef")
  /\ DefineInstrument(TokenAt(tokens, tokenIndex + 1),
                      StartsWith(TokenAt(tokens, tokenIndex + 2), QUOTE))
  /\ stack' = Pop
  /\ UNCHANGED <<app, returned>>
  /\ UNCHANGED <<source, tokens, meta, timeline, durationTicks, macros,
                 currentGroup>>

(***************************************************************************)
(* parseMeasure                                                            *)
(***************************************************************************)
\* the balance loop of parseMeasure from token i on: the index reached
RECURSIVE BlockEnd(_, _, _)
BlockEnd(toks, i, balance) ==
  IF balance > 0 /\ i < Len(toks)
  THEN BlockEnd(toks, i + 1, Balance(TokenAt(toks, i), balance))
  ELSE i

\* (num * (4 / den)) * TICKS_PER_QUARTER
TicksPerMeasure(num, den) ==
  IF den = 0 THEN FMul(FMul(num, Infinity), TICKS_PER_QUARTER)
  ELSE (num * 4 * TICKS_PER_QUARTER) \div den

\* this.score.instruments.find(i => i.id === instId)
FindInstrument(instId) ==
  instruments[Least({i \in 1..Len(instruments) : instruments[i].id = instId})]

\* startM and endM of parseMeasure from the token after `measure`
MeasureRange(range) ==
  IF Includes(range, "-")
  THEN Only({[startM |-> ParseInt(p[1]), endM |-> ParseInt(p[2])] :
               p \in {Split(range, "-")}})
  ELSE Only({[startM |-> n, endM |-> n] : n \in {ParseInt(range)}})

\* parseMeasure after the balance loop, which stopped with tokenIndex = after
EnterMeasure(range, blockStart, after) ==
  /\ tokenIndex' = after
  /\ stack' = Goto([fn |-> "parseMeasure", pc |-> "replay",
                    m |-> range.startM, endM |-> range.endM,
                    blockStart |-> blockStart, blockEnd |-> after - 1,
                    ticksPerMeasure |->
                      TicksPerMeasure(meta.timeSignature[1],
                                      meta.timeSignature[2])])

\* one iteration of while (this.tokenIndex < blockEnd) on the token t
MeasureToken(t, possibleId) ==
  IF ToLowerCase(t) = "meta"
    THEN /\ stack' = Append(stack, [fn |-> "parseMetaBlock", pc |-> "entry"])
         /\ UNCHANGED tokenIndex
  ELSE IF \E i \in 1..Len(instruments) : instruments[i].id = possibleId
    THEN /\ stack' = Append(stack,
              [fn |-> "parseInstrumentLogic", pc |-> "entry",
               instId |-> possibleId,
               measureStartTick |-> FMul(Top.m - 1, Top.ticksPerMeasure)])
         /\ UNCHANGED tokenIndex
  ELSE /\ tokenIndex' = tokenIndex + 1
       /\ UNCHANGED stack

ParseMeasure ==
  /\ Running("parseMeasure")
  /\ IF Top.pc = "entry"
     THEN \* consume 'measure' and the range; if (!this.match('{')) return
          IF TokenAt(tokens, tokenIndex + 2) # "{"
          THEN /\ tokenIndex' = tokenIndex + 2
               /\ stack' = Pop
          ELSE \E range \in {MeasureRange(TokenAt(tokens, tokenIndex + 1))},
                  after \in {BlockEnd(tokens, tokenIndex + 3, 1)} :
                 EnterMeasure(range, tokenIndex + 3, after)
     ELSE IF Top.pc = "replay"
     THEN \* for (let m = startM; m <= endM; m++)
          IF FLe(Top.m, Top.endM)
          THEN /\ tokenIndex' = Top.blockStart
               /\ stack' = Goto([Top EXCEPT !.pc = "block"])
          ELSE /\ tokenIndex' = Top.blockEnd + 1
               /\ stack' = Pop
     ELSE \* pc = "block": while (this.tokenIndex < blockEnd)
          IF tokenIndex < Top.blockEnd
          THEN \E possibleId \in {RemoveFirst(peek, ":")} :
                 MeasureToken(peek, possibleId)
          ELSE /\ stack' = Goto([Top EXCEPT !.pc = "replay", !.m = Top.m + 1])
               /\ UNCHANGED tokenIndex
  /\ UNCHANGED <<app, returned>>
  /\ UNCHANGED <<source, tokens, meta, instruments, timeline, durationTicks,
                 macros, currentGroup, globalCursors>>

(***************************************************************************)
(* parseInstrumentLogic and parseVoiceStream                               *)
(***************************************************************************)
\* if (!this.globalCursors[instId][voiceId]) this.globalCursors[instId][voiceId] = {...}
EnsureCursor(cursors, instId, voiceId) ==
  IF voiceId \in DOMAIN cursors[instId] THEN cursors
  ELSE [cursors EXCEPT ![instId] =
          Put(cursors[instId], voiceId,
              [octave |-> 4, duration |-> DUR_SCALE, tick |-> 0])]

\* a stream whose local tick starts at the measure offset
ContinuedStreamFrame(instId, voiceId, baseTick) ==
  [fn |-> "parseVoiceStream", inst |-> FindInstrument(instId),
   voiceId |-> voiceId, baseTick |-> baseTick, currentTick |-> baseTick]

\* let currentTick = 0
VoiceStreamFrame(instId, voiceId, baseTick) ==
  [fn |-> "parseVoiceStream", inst |-> FindInstrument(instId),
   voiceId |-> voiceId, baseTick |-> baseTick, currentTick |-> 0]

\* the else branch of parseInstrumentLogic, the stream starting at token i1
SingleVoice(i1) ==
  /\ tokenIndex' = i1
  /\ globalCursors' = EnsureCursor(globalCursors, Top.instId, "v1")
  /\ stack' = Call([Top EXCEPT !.pc = "afterSingle"],
                   VoiceStreamFrame(Top.instId, "v1", Top.measureStartTick))

\* one voice of a voice group
GroupVoice(voiceId) ==
  /\ tokenIndex' = IF TokenAt(tokens, tokenIndex + 1) = ":"
                   THEN tokenIndex + 2 ELSE tokenIndex + 1
  /\ globalCursors' = EnsureCursor(globalCursors, Top.instId, voiceId)
  /\ stack' = Call([Top EXCEPT !.pc = "afterVoice"],
                   VoiceStreamFrame(Top.instId, voiceId, Top.measureStartTick))

\* parseInstrumentLogic after the id and an optional ':', at token i1
VoicesAt(i1) ==
  IF TokenAt(tokens, i1) = "{"
  THEN /\ tokenIndex' = i1 + 1
       /\ stack' = Goto([Top EXCEPT !.pc = "voices"])
       /\ UNCHANGED globalCursors
  ELSE SingleVoice(i1)

ParseInstrumentLogic ==
  /\ Running("parseInstrumentLogic")
  /\ IF Top.pc = "entry"
     THEN VoicesAt(IF TokenAt(tokens, tokenIndex + 1) = ":"
                   THEN tokenIndex + 2 ELSE tokenIndex + 1)
     ELSE IF Top.pc = "voices"
     THEN IF peek # "}" /\ tokenIndex < Len(tokens)
          THEN \E voiceId \in {RemoveFirst(peek, ":")} : GroupVoice(voiceId)
          ELSE \* consume '}' and return
               /\ tokenIndex' = tokenIndex + 1
               /\ stack' = Pop
               /\ UNCHANGED globalCursors
     ELSE \* after a voice stream: if (this.peek() === '|') this.consume()
          /\ tokenIndex' = IF peek = "|" THEN tokenIndex + 1 ELSE tokenIndex
          /\ stack' = IF Top.pc = "afterVoice"
                      THEN Goto([Top EXCEPT !.pc = "voices"])
                      ELSE Pop
          /\ UNCHANGED globalCursors
  /\ UNCHANGED <<app, returned>>
  /\ UNCHANGED <<source, tokens, meta, instruments, timeline, durationTicks,
                 macros, currentGroup>>

\* the effect of one token of a voice stream: r holds the cursors and the
\* timeline after it and the ticks its onAdvance calls added up
\* the token is consumed; an exception leaves every function of the parser
StreamStep(r) ==
  /\ tokenIndex' = tokenIndex + 1
  /\ IF "thrown" \in DOMAIN r
     THEN /\ stack' = <<[fn |-> "parse", pc |-> "thrown", message |-> r.thrown]>>
          /\ UNCHANGED <<globalCursors, timeline>>
     ELSE /\ globalCursors' = r.cursors
          /\ timeline' = r.timeline
          /\ stack' = Goto([Top EXCEPT !.currentTick =
                                         FAdd(Top.currentTick, r.advance)])

StreamToken(token) ==
  IF token = "]"
    THEN [cursors |-> globalCursors, timeline |-> timeline, advance |-> 0]
  ELSE IF StartsWith(token, "$")
    THEN handleMacro(token, Top.inst, Top.voiceId, Top.baseTick, macros,
                     globalCursors, timeline)
  ELSE parseEvent(token, Top.inst, Top.voiceId, Top.baseTick, Top.currentTick,
                  globalCursors, timeline)

\* one iteration of the while loop of parseVoiceStream, or its exit
ParseVoiceStream ==
  /\ Running("parseVoiceStream")
  /\ IF peek # "|" /\ peek # "}" /\ tokenIndex < Len(tokens)
     THEN \E r \in {StreamToken(peek)} : StreamStep(r)
     ELSE /\ stack' = Pop
          /\ UNCHANGED <<tokenIndex, globalCursors, timeline>>
  /\ UNCHANGED <<app, returned>>
  /\ UNCHANGED <<source, tokens, meta, instruments, durationTicks, macros,
                 currentGroup>>

(***************************************************************************)
(* parse(): closing the root block and finalizing                          *)
(***************************************************************************)
\* step 4 of parse() with the sorted timeline
Finish(sorted) ==
  /\ timeline' = sorted
  /\ durationTicks' = IF Len(sorted) > 0 THEN sorted[Len(sorted)].tickEnd
                      ELSE durationTicks

\* this.match('}') after the root block, then the sort and the duration
Finalize ==
  /\ Running("parse") /\ Top.pc \in {"closeRoot", "finalize"}
  /\ IF Inconsistent(timeline)
     THEN \E p \in Permutations(1..Len(timeline)) : Finish(Reorder(timeline, p))
     ELSE \E sorted \in {SortTimeline(timeline)} : Finish(sorted)
  /\ tokenIndex' = IF Top.pc = "closeRoot" /\ peek = "}" THEN tokenIndex + 1
                   ELSE tokenIndex
  /\ stack' = Goto([fn |-> "parse", pc |-> "done"])
  /\ UNCHANGED <<app, returned>>
  /\ UNCHANGED <<source, tokens, meta, instruments, macros, currentGroup,
                 globalCursors>>

(***************************************************************************)
(* Source texts                                                            *)
(***************************************************************************)
\* longest fragment, in words, of the malformed-input family
MaxFragment == 3
\* longest voice stream, in words, of the voice-stream family
MaxStream == 3

\* the words of ws separated by single spaces
Words(ws) == Join(ws, 1)

SeqsUpTo(S, n) == UNION {[1..k -> S] : k \in 0..n}

\* one instrument, one parameterless macro and a measure range holding one
\* voice stream made of short runs of event tokens
StreamSource(stream) ==
  "macro M = { c d.grace } def pno measure 1-2 { pno: " \o stream \o " }"

\* the documents of the specification's examples and variations of them
StickyDurationSource == "def pno measure 1 { pno: c4:4 d e }"
MeasureReplaySource(range) == "def pno measure " \o range \o " { pno: c4:4 }"
\* the ranges of MeasureReplaySource the model runs: text, first and last index
ReplayRanges ==
  {[text |-> "1", s |-> 1, e |-> 1], [text |-> "1-2", s |-> 1, e |-> 2],
   [text |-> "2-3", s |-> 2, e |-> 3], [text |-> "1-3", s |-> 1, e |-> 3]}
HatPatternSource ==
  "macro HatPattern(vel) = { h:8.vol($vel) h h h } "
    \o "def drm measure 1 { drm: $HatPattern(80) }"
ChordSource == "def pno measure 1 { pno: [c4 e4 g4]:4 }"
GridSource(tok) == "def drm style=grid measure 1 { drm: " \o tok \o " }"
StickyOctaveSource == "def pno measure 1 { pno: c5 e g }"
StickyOctaveDurationSource == "def pno measure 1 { pno: c5:4 e g }"
GraceLastSource == "def pno measure 1 { pno: c | pno: c.grace }"
ZeroDenominatorSource == "def pno meta { time: \"3/0\" } measure 1-2 { pno: c }"
MacroGraceSource == "macro M = { d.grace } def pno measure 1 { pno: c $M e }"
MissingBraceSource == "group x"
UnknownMacroSource == "def pno measure 1 { pno: c $U(d) e }"
NestedTimeSource == "def pno measure 1-3 { meta { time: \"3/4\" } pno: c }"

\* a meta block whose time value is the quoted text v, alone and after a
\* meta block that sets 3/4
MetaTimeSource(v) == "meta { time: \"" \o v \o "\" }"
SecondTimeSource(v) == "meta { time: \"3/4\" } " \o MetaTimeSource(v)
\* the time values the model runs; n and d are the integers a valid one holds
TimeValues ==
  {[text |-> "3/4", valid |-> TRUE, n |-> 3, d |-> 4],
   [text |-> "6/8", valid |-> TRUE, n |-> 6, d |-> 8],
   [text |-> "12/16", valid |-> TRUE, n |-> 12, d |-> 16],
   [text |-> " 2/ 2", valid |-> TRUE, n |-> 2, d |-> 2],
   [text |-> "x", valid |-> FALSE, n |-> 0, d |-> 0],
   [text |-> "3", valid |-> FALSE, n |-> 0, d |-> 0],
   [text |-> "3/", valid |-> FALSE, n |-> 0, d |-> 0],
   [text |-> "/4", valid |-> FALSE, n |-> 0, d |-> 0],
   [text |-> "a/b", valid |-> FALSE, n |-> 0, d |-> 0],
   [text |-> "", valid |-> FALSE, n |-> 0, d |-> 0]}

Examples ==
  {StickyDurationSource, HatPatternSource, ChordSource, StickyOctaveSource,
   StickyOctaveDurationSource, GraceLastSource, ZeroDenominatorSource,
   MacroGraceSource, MissingBraceSource, UnknownMacroSource, NestedTimeSource}
    \cup {MeasureReplaySource(r.text) : r \in ReplayRanges}
    \cup {GridSource(t) : t \in DOMAIN GM_DRUM_MAP}
    \cup {MetaTimeSource(v.text) : v \in TimeValues}
    \cup {SecondTimeSource(v.text) : v \in TimeValues}
    \cup {"omniscore {\n %% a comment {\n meta { title: \"T\", tempo: 100, time: \"3/4\" }\n}",
          "omniscore { meta { tags: [a, b], key: \"G\" } def pno measure 2 { pno: c } }",
          "group \"G\" symbol=bracket { def pno \"Piano\" clef=treble } measure 1 { pno: c }",
          "def pno measure 1-2 { pno: { v1: c5 e | v2: c.grace g } }",
          "def pno measure 2 { pno: c } meta { time: \"3/0\" } measure 1 { pno: d } "
            \o "meta { time: \"4/4\" } measure 1 { pno: e }",
          "def pno measure 1 { pno: c5 } measure 2 { pno: e }",
          "def pno measure 1 { pno: c5 } def pno measure 2 { pno: e }",
          "def pno measure 1 { pno: \"c5:8\" e \"g.vol(90).x\" }",
          "def pno measure 1 { pno: c5 zz:8.stacc h9 e }",
          "def vln measure 1 { vln: c5 e g }",
          "macro M = { c $M e } macro A = { $B } macro B = { $A d | } "
            \o "def pno measure 1 { pno: $M $A $B g }",
          "meta { title: \"T\" } def pno measure 1 { pno: c }",
          "meta { title } def pno measure 1 { pno: c }",
          "def gtr \"Guitar\" style=tab clef=bass transpose=-12 "
            \o "patch=nylon vol=2 pan=1",
          "def pno measure 1 { pno: \"c:8\" \"d:4.\" \"e:4..\" \"f:16.\" }",
          "def pno measure 1 { pno: c:4.. }",
          "def pno measure 1 { pno: c:4. }",
          "def pno measure 1 { pno: c:8 }",
          "macro M = { d f } def pno measure 1 { pno: c $M e }"}

\* the codes of the sessions the model follows past the first compilation: a
\* truncated declaration, a document with a macro, a reference to a macro
\* that is not defined, a reference that throws, and two of them wrapped
ThrowSource == "def pno measure 1 { pno: c $constructor e }"
Wrapped(code) == "omniscore { " \o code \o " }"
SessionCodes ==
  {"def", Wrapped("def"), MacroGraceSource, Wrapped(MacroGraceSource),
   "def pno measure 1 { pno: $M e }", ThrowSource}

\* the codes whose scores the model plays: two quarter notes, and a time
\* signature with a zero denominator, which gives a score whose durationTicks
\* is Infinity
PlayCodes == {"def pno measure 1 { pno: c d }", ZeroDenominatorSource}

\* most compilation requests of one session
MaxCompiles == 3

\* the documents the parser is run on: fragments of documents (every short
\* sequence of keywords, braces and names), voice streams made of short runs
\* of event tokens, the examples and the codes of the sessions
Sources ==
  {Words(ws) : ws \in SeqsUpTo({"omniscore", "meta", "macro", "group", "def",
                                "measure", "{", "}", "[", "]", ":", "x", "1"},
                               MaxFragment)}
  \cup {StreamSource(Words(ws)) :
          ws \in SeqsUpTo({"c5", "e", "g", "r", "c.grace", "zz", "$M", "|",
                           "c4:4", "[c4 e4]"},
                          MaxStream)}
  \cup Examples \cup SessionCodes \cup PlayCodes

(***************************************************************************)
(* App: handleCompile                                                      *)
(***************************************************************************)
\* useState<CompiledScore | null>(null) and the score of a new AudioEngine
NoScore == [null |-> TRUE]
\* useState<string | null>(null)
Null == "<null>"

\* the object parse() returns: this.score
Compiled ==
  [meta |-> meta, instruments |-> instruments, timeline |-> timeline,
   durationTicks |-> durationTicks]

\* parse() has returned
Returned == Running("parse") /\ Top.pc = "done"

\* AudioEngine.loadScore: this.score = score; this.reset()
loadScore(compiled) ==
  [engine EXCEPT !.score = compiled, !.currentTick = 0, !.nextNoteIndex = 0]

\* the table of macros of the parser before, as a table the parsers share
SharedMacros == macros

\* private macros: Record<string, MacroDef> = {}: the table of macros a new
\* OmniParser starts with
NewMacros == EmptyMap

\* handleCompile up to the call of parse(): setError(null) and
\* new OmniParser(code), for the code the editor holds; the code of a score
\* the model plays stays as it is
HandleCompile ==
  /\ stack = << >>
  /\ Len(requests) < MaxCompiles
  /\ \A i \in 1..Len(requests) : requests[i].code \in SessionCodes \cup PlayCodes
  /\ error' = Null
  /\ source' \in IF source \in PlayCodes THEN {source} ELSE SessionCodes
  /\ tokens' = << >>
  /\ tokenIndex' = 0
  /\ meta' = [title |-> "Untitled", composer |-> "Unknown", tempo |-> 120,
              timeSignature |-> <<4, 4>>, key |-> "C", style |-> "standard"]
  /\ instruments' = << >>
  /\ timeline' = << >>
  /\ durationTicks' = 0
  /\ macros' = NewMacros
  /\ currentGroup' = Undefined
  /\ globalCursors' = EmptyMap
  /\ stack' = <<[fn |-> "parse", pc |-> "start"]>>
  /\ returned' = << >>
  /\ UNCHANGED <<score, engine, requests, currentTick, elapsed, pending,
                 scheduled>>

\* most calls of parse() on one parser
MaxCalls == 2

\* parse() called again on the parser it has returned from: the fields of
\* the parser, this.score among them, are as the call before left them
ParseAgain ==
  /\ Returned
  /\ Len(returned) + 1 < MaxCalls
  /\ source \in {"def vln measure 1 { vln: c5 e g }",
                  "meta { title: \"T\" } def pno measure 1 { pno: c }"}
  /\ returned' = Append(returned, Compiled)
  /\ stack' = <<[fn |-> "parse", pc |-> "start"]>>
  /\ UNCHANGED <<source, tokens, tokenIndex, meta, instruments, timeline,
                 durationTicks, macros, currentGroup, globalCursors, app>>

\* handleCompile after parse() has returned: setScore(compiled) and
\* engineRef.current.loadScore(compiled)
SetScore ==
  /\ Returned
  /\ score' = Compiled
  /\ engine' = loadScore(Compiled)
  /\ requests' = Append(requests, [code |-> source, result |-> Compiled])
  /\ stack' = << >>
  /\ scheduled' = [once |-> {}, again |-> {}]
  /\ UNCHANGED <<source, tokens, tokenIndex, meta, instruments, timeline,
                 durationTicks, macros, currentGroup, globalCursors, error,
                 returned, currentTick, elapsed, pending>>

\* a catch block that also clears the score on display
CatchClearing ==
  /\ Running("parse") /\ Top.pc = "thrown"
  /\ error' = Top.message
  /\ score' = NoScore
  /\ requests' = Append(requests, [code |-> source,
                                    result |-> [thrown |-> Top.message]])
  /\ stack' = << >>
  /\ UNCHANGED <<source, tokens, tokenIndex, meta, instruments, timeline,
                 durationTicks, macros, currentGroup, globalCursors, engine,
                 returned, currentTick, elapsed, pending, scheduled>>

\* handleCompile after parse() has thrown: catch (e) { setError(e.message) }
Catch ==
  /\ Running("parse") /\ Top.pc = "thrown"
  /\ error' = Top.message
  /\ requests' = Append(requests, [code |-> source,
                                    result |-> [thrown |-> Top.message]])
  /\ stack' = << >>
  /\ UNCHANGED <<source, tokens, tokenIndex, meta, instruments, timeline,
                 durationTicks, macros, currentGroup, globalCursors, score,
                 engine, returned, currentTick, elapsed, pending, scheduled>>

(***************************************************************************)
(* AudioEngine: play, pause, stop and the scheduler                        *)
(*                                                                         *)
(* Time is counted in units of the engine's lookahead, 0.1 s: the clock is *)
(* read by scheduler() only, which play() calls at elapsed time 0 and a    *)
(* timer calls one lookahead or more after it was set.  The timers are     *)
(* numbered from 1 and timerID 0 is the null of the code.                  *)
(***************************************************************************)
\* the longest time the model counts: elapsed = MaxElapsed stands for
\* MaxElapsed or more
MaxElapsed == 17

\* (ctx.currentTime - startTime) / secondsPerTick for the elapsed time t, with
\* secondsPerTick = 60 / (tempo * TICKS_PER_QUARTER)
estimatedTick(t, tempo) == (t * tempo * TICKS_PER_QUARTER) \div 600

\* the while loop of scheduler: nextNoteIndex after the events that start
\* less than scheduleAheadTime (one unit) after t; the comparison is false
\* for a tickStart that is NaN
RECURSIVE NextNoteIndex(_, _, _, _)
NextNoteIndex(tl, i, t, tempo) ==
  IF /\ i < Len(tl)
     /\ tl[i + 1].tickStart # NaN
     /\ \/ tl[i + 1].tickStart = NegInfinity
        \/ /\ tl[i + 1].tickStart # Infinity
           /\ tl[i + 1].tickStart * 600
                < (t + 1) * tempo * TICKS_PER_QUARTER
  THEN NextNoteIndex(tl, i + 1, t, tempo)
  ELSE i

\* a clearTimeout that leaves the timer pending
keepTimeout(p, id) == p

\* window.clearTimeout(id): the timers left pending
clearTimeout(p, id) == p \ {id}

\* scheduler() on the engine e at elapsed time t, with the timers p pending:
\* schedules the events that are due, reports the tick, and stops when the
\* tick is past the end of the score or else sets the next timer
scheduler(e, t, p) ==
  IF ~e.isPlaying \/ e.score = NoScore
  THEN /\ engine' = e
       /\ pending' = p
       /\ UNCHANGED <<currentTick, scheduled>>
  ELSE \E n \in {NextNoteIndex(e.score.timeline, e.nextNoteIndex, t,
                               e.score.meta.tempo)},
          tick \in {estimatedTick(t, e.score.meta.tempo)},
          end \in {FAdd(e.score.durationTicks, TICKS_PER_QUARTER)},
          id \in {CHOOSE k \in 1..(Cardinality(p) + 2) :
                    /\ k \notin p \cup {e.timerID}
                    /\ \A j \in 1..(k - 1) : j \in p \cup {e.timerID}} :
         IF end # NaN /\ tick > end
         THEN \* this.stop(): pause(), currentTick = 0, onTick(0), onStop()
              /\ engine' = [e EXCEPT !.nextNoteIndex = n, !.currentTick = 0,
                                     !.isPlaying = FALSE]
              /\ pending' = clearTimeout(p, e.timerID)
              /\ currentTick' = 0
              /\ scheduled' = [once |-> {}, again |-> {}]
         ELSE \* this.timerID = window.setTimeout(...)
              /\ engine' = [e EXCEPT !.nextNoteIndex = n, !.currentTick = tick,
                                     !.timerID = id]
              /\ pending' = p \cup {id}
              /\ currentTick' = tick
              /\ scheduled' =
                   [once |-> scheduled.once \cup (e.nextNoteIndex..(n - 1)),
                    again |-> scheduled.again
                                \cup (scheduled.once
                                        \cap (e.nextNoteIndex..(n - 1)))]

\* play(), for the loaded score of one of PlayCodes, with a positive tempo:
\* returns when the engine is playing; else takes the index of the first event at or after
\* currentTick (0 when there is none), sets startTime to the time of the
\* clock and calls scheduler()
Play ==
  /\ stack = << >>
  /\ source \in PlayCodes
  /\ engine.score # NoScore
  /\ engine.score.meta.tempo > 0 /\ IsFinite(engine.score.meta.tempo)
  /\ ~engine.isPlaying
  /\ elapsed' = 0
  /\ \E first \in {Least({i \in 1..Len(engine.score.timeline) :
                            FLe(engine.currentTick,
                                engine.score.timeline[i].tickStart)})} :
       scheduler([engine EXCEPT !.isPlaying = TRUE,
                                !.nextNoteIndex =
                                  IF first = 0 THEN 0 ELSE first - 1],
                 0, pending)
  /\ UNCHANGED <<source, tokens, tokenIndex, meta, instruments, timeline,
                 durationTicks, macros, currentGroup, globalCursors, stack,
                 score, error, requests, returned>>

\* pause(): isPlaying = false and clearTimeout(this.timerID)
Pause ==
  /\ stack = << >>
  /\ engine' = [engine EXCEPT !.isPlaying = FALSE]
  /\ pending' = clearTimeout(pending, engine.timerID)
  /\ UNCHANGED <<source, tokens, tokenIndex, meta, instruments, timeline,
                 durationTicks, macros, currentGroup, globalCursors, stack,
                 score, error, requests, returned, currentTick, elapsed,
                 scheduled>>

\* stop(): pause(), currentTick = 0, onTick(0) and onStop()
Stop ==
  /\ stack = << >>
  /\ engine' = [engine EXCEPT !.isPlaying = FALSE, !.currentTick = 0]
  /\ pending' = clearTimeout(pending, engine.timerID)
  /\ currentTick' = 0
  /\ scheduled' = [once |-> {}, again |-> {}]
  /\ UNCHANGED <<source, tokens, tokenIndex, meta, instruments, timeline,
                 durationTicks, macros, currentGroup, globalCursors, stack,
                 score, error, requests, returned, elapsed>>

\* a timer fires, one lookahead or more after it was set: scheduler()
TimerFires ==
  /\ stack = << >>
  /\ \E id \in pending :
       \E t \in (IF elapsed < MaxElapsed THEN elapsed + 1 ELSE MaxElapsed)
                  ..MaxElapsed :
         /\ elapsed' = t
         /\ scheduler(engine, t, pending \ {id})
  /\ UNCHANGED <<source, tokens, tokenIndex, meta, instruments, timeline,
                 durationTicks, macros, currentGroup, globalCursors, stack,
                 score, error, requests, returned>>

(***************************************************************************)
(* Specification                                                           *)
(***************************************************************************)
Init ==
  /\ source \in Sources
  /\ tokens = << >>
  /\ tokenIndex = 0
  /\ meta = [title |-> "Untitled", composer |-> "Unknown", tempo |-> 120,
             timeSignature |-> <<4, 4>>, key |-> "C", style |-> "standard"]
  /\ instruments = << >>
  /\ timeline = << >>
  /\ durationTicks = 0
  /\ macros = EmptyMap
  /\ currentGroup = Undefined
  /\ globalCursors = EmptyMap
  /\ stack = <<[fn |-> "parse", pc |-> "start"]>>
  /\ score = NoScore
  /\ error = Null
  /\ engine = [score |-> NoScore, currentTick |-> 0, nextNoteIndex |-> 0,
               isPlaying |-> FALSE, timerID |-> 0]
  /\ requests = << >>
  /\ returned = << >>
  /\ currentTick = 0
  /\ elapsed = 0
  /\ pending = {}
  /\ scheduled = [once |-> {}, again |-> {}]

Next ==
  \/ Parse
  \/ ParseBody
  \/ ParseMetaBlock
  \/ ParseMacroDef
  \/ ParseGroup
  \/ ParseDef
  \/ ParseMeasure
  \/ ParseInstrumentLogic
  \/ ParseVoiceStream
  \/ Finalize
  \/ ParseAgain
  \/ HandleCompile
  \/ SetScore
  \/ Catch
  \/ Play
  \/ Pause
  \/ Stop
  \/ TimerFires

Spec == Init /\ [][Next]_vars

\* parse() is synchronous: once called it keeps running
FairSpec == Spec /\ WF_vars(Next)

(***************************************************************************)
(* Properties of the compiled score                                        *)
(***************************************************************************)
\* the event carries a `grace` modifier
IsGrace(e) == \E i \in 1..Len(e.modifiers) : e.modifiers[i].name = "grace"

\* every tick of the timeline is a finite number
FiniteTicks ==
  \A i \in 1..Len(timeline) :
    IsFinite(timeline[i].tickStart) /\ IsFinite(timeline[i].tickEnd)

\* C1: parse() terminates and returns a score for every token sequence,
\* malformed ones included; here for a group block that lacks its opening
\* brace.
ParseTerminates == (source = MissingBraceSource) => <>Returned

\* C2: sticky duration: `c4:4 d e` on one voice yields exactly three events,
\* one per event token, each of duration 1 quarter note, the i-th starting
\* 1920 ticks after the one before it.
StickyDuration ==
  (Returned /\ source = StickyDurationSource) =>
    /\ Len(timeline) = 3
    /\ \A i \in 1..3 :
         /\ timeline[i].duration = DUR_SCALE
         /\ timeline[i].tickStart = (i - 1) * TICKS_PER_QUARTER

\* C3: measure replay: `measure s-e { pno: c4:4 }` in 4/4 yields exactly
\* e-s+1 events, in increasing order of the measure index m, the one for
\* index m starting at tick (m-1) * 7680.
MeasureReplay ==
  \A r \in ReplayRanges :
    (Returned /\ source = MeasureReplaySource(r.text)) =>
      /\ Len(timeline) = r.e - r.s + 1
      /\ \A i \in 1..Len(timeline) :
           timeline[i].tickStart = (r.s + i - 2) * TicksPerMeasure(4, 4)

\* C4: macro expansion with a parameter: after the definition
\* `macro HatPattern(vel) = { h:8.vol($vel) h h h }` the invocation
\* `$HatPattern(80)` adds exactly 4 events, the first with velocity 80/127,
\* consecutive ones 960 ticks apart.
MacroExpansion ==
  (Returned /\ source = HatPatternSource) =>
    /\ Len(timeline) = 4
    /\ timeline[1].velocity = <<80, 127>>
    /\ \A i \in 1..3 :
         timeline[i + 1].tickStart = timeline[i].tickStart + TICKS_PER_QUARTER \div 2

\* C5: chord: `[c4 e4 g4]:4` yields exactly one event, of type chord, whose
\* pitches are the three inner pitches in written order, and no separate
\* note events.
ChordEvent ==
  (Returned /\ source = ChordSource) =>
    /\ Len(timeline) = 1
    /\ timeline[1].type = "chord"
    /\ timeline[1].pitches = <<60, 64, 67>>

\* C6: grid mapping: on an instrument declared with style=grid an event token
\* that is a key of the percussion map yields a note event whose pitch is the
\* mapped MIDI number (`k` gives 36).  The keys r and s are left out: an
\* event token r or s is a rest.
GridMapping ==
  \A t \in DOMAIN GM_DRUM_MAP \ {"r", "s"} :
    (Returned /\ source = GridSource(t)) =>
      \E i \in 1..Len(timeline) :
        timeline[i].type = "note" /\ timeline[i].pitches = <<GM_DRUM_MAP[t]>>

\* durationTicks is the greatest tickEnd of the timeline, 0 when it is empty
DurationIsMaxTickEnd ==
  IF Len(timeline) = 0 THEN durationTicks = 0
  ELSE /\ \E i \in 1..Len(timeline) : durationTicks = timeline[i].tickEnd
       /\ \A i \in 1..Len(timeline) : timeline[i].tickEnd <= durationTicks

\* C7: finalization: in the compiled score durationTicks equals the maximum
\* tickEnd over the events of the timeline; here for two streams of one
\* voice in one measure, the second holding a grace note.
DurationTicksIsMaximum ==
  (Returned /\ source = GraceLastSource) => FiniteTicks /\ DurationIsMaxTickEnd

\* the timeline is non-decreasing in tickStart (<= as JavaScript compares)
NonDecreasing ==
  \A i \in 1..(Len(timeline) - 1) :
    FLe(timeline[i].tickStart, timeline[i + 1].tickStart)

\* C8: in the returned score the timeline is non-decreasing in tickStart;
\* here for a measure range replayed under the time signature 3/0.
TimelineSorted == (Returned /\ source = ZeroDenominatorSource) => NonDecreasing

\* C9: sticky octave: a pitch token without an octave resolves in the octave
\* of the most recent explicit-octave pitch of its voice; in `c5:4 e g` the
\* tokens e and g, the last two events of the voice, resolve to 76 and 79.
StickyOctave ==
  (Returned /\ source = StickyOctaveDurationSource) =>
    /\ Len(timeline) >= 3
    /\ timeline[1].pitches = <<72>>
    /\ timeline[Len(timeline) - 1].pitches = <<76>>
    /\ timeline[Len(timeline)].pitches = <<79>>

\* C10: grace note: every event carrying a grace modifier has duration 0 and
\* tickEnd = tickStart, and the next event of its voice stream starts at the
\* same tick; here for a stream `c $M e` whose macro M holds a grace note
\* (the timeline of this source is in production order).
GraceNote ==
  (Returned /\ source = MacroGraceSource) =>
    \A i \in 1..Len(timeline) :
      IsGrace(timeline[i]) =>
        /\ timeline[i].duration = 0
        /\ timeline[i].tickEnd = timeline[i].tickStart
        /\ i < Len(timeline) =>
             timeline[i + 1].tickStart = timeline[i].tickStart

\* C11: a meta block with time: "N/D", N and D integers, sets timeSignature
\* to <<N, D>>; a time value that is not of this form leaves timeSignature as
\* it was: the default <<4, 4>>, or <<3, 4>> after a block that set 3/4.
MetaTime ==
  \A v \in TimeValues :
    /\ (Returned /\ source = MetaTimeSource(v.text)) =>
         meta.timeSignature = (IF v.valid THEN <<v.n, v.d>> ELSE <<4, 4>>)
    /\ (Returned /\ source = SecondTimeSource(v.text)) =>
         meta.timeSignature = (IF v.valid THEN <<v.n, v.d>> ELSE <<3, 4>>)

\* the invalid time value x after a block that set 3/4 has been compiled
MetaTimeKept ==
  Returned /\ source = SecondTimeSource("x") /\ meta.timeSignature = <<3, 4>>

\* C12: in every compiled score no two entries of instruments have the same
\* id, also when the source declares an id twice.
UniqueInstrumentIds ==
  Returned =>
    \A i, j \in 1..Len(instruments) :
      i # j => instruments[i].id # instruments[j].id

\* C13: every event of a compiled timeline that carries a grace modifier has
\* duration 0 and tickEnd = tickStart; every other event has duration > 0
\* and tickEnd >= tickStart with tickEnd - tickStart = duration * 1920
\* (compared as JavaScript compares doubles: nothing equals NaN).
EventDurations ==
  Returned =>
    \A i \in 1..Len(timeline) :
      IF IsGrace(timeline[i])
      THEN /\ timeline[i].duration = 0
           /\ timeline[i].tickStart # NaN
           /\ timeline[i].tickEnd = timeline[i].tickStart
      ELSE /\ FLe(0, timeline[i].duration) /\ timeline[i].duration # 0
           /\ FLe(timeline[i].tickStart, timeline[i].tickEnd)
           /\ FAdd(timeline[i].tickEnd, FNeg(timeline[i].tickStart))
                = DurationTicks(timeline[i].duration)

\* C14: top-level blocks take effect in any order, also after a macro
\* declaration with a parameter list: the def that follows the declaration
\* `macro HatPattern(vel) = { ... }` declares its instrument, and the whole
\* document is consumed.
BlocksAfterMacro ==
  (Returned /\ source = HatPatternSource) =>
    /\ \E i \in 1..Len(instruments) : instruments[i].id = "drm"
    /\ tokenIndex = Len(tokens)

\* C16: a reference to a macro that has no definition is a no-op, also when
\* it is written with arguments: in `c $U(d) e` the reference adds no event
\* and does not advance the tick, so the timeline holds c at tick 0 and e at
\* tick 1920 and nothing else.
UnknownMacroNoOp ==
  (Returned /\ source = UnknownMacroSource) =>
    /\ Len(timeline) = 2
    /\ timeline[1].pitches = <<60>> /\ timeline[1].tickStart = 0
    /\ timeline[2].pitches = <<64>> /\ timeline[2].tickStart = 1920

ReplayOffsets ==
  (Returned /\ source = NestedTimeSource) =>
    /\ meta.timeSignature = <<3, 4>>
    /\ Len(timeline) = 3
    /\ timeline[1].tickStart = 0
    /\ timeline[2].tickStart = 5760
    /\ timeline[3].tickStart = 11520

\* C15: lenient root: for every body text B whose first token is not
\* `omniscore`, compiling B and compiling `omniscore { B }` give equal
\* scores: same meta, instruments, timeline and durationTicks.
LenientRoot ==
  \A i, j \in 1..Len(requests) :
    (/\ requests[j].code = Wrapped(requests[i].code)
     /\ TokenAt(Tokenize(requests[i].code), 0) # "omniscore") =>
      requests[j].result = requests[i].result

\* C18: compilation is deterministic and isolated: every compilation of a
\* code gives the same outcome, whatever was compiled before it.
Deterministic ==
  \A i, j \in 1..Len(requests) :
    requests[i].code = requests[j].code => requests[i].result = requests[j].result

\* a document that refers to the macro M without defining it, compiled
\* before and after a document that defines M: both times the reference
\* expands to nothing and the timeline holds the one event e
IsolatedFromMacros ==
  /\ Len(requests) = 3
  /\ requests[1].code = "def pno measure 1 { pno: $M e }"
  /\ requests[2].code = MacroGraceSource
  /\ requests[3].code = requests[1].code
  /\ Len(requests[2].result.timeline) = 3
  /\ Len(requests[3].result.timeline) = 1

\* the requests that returned a score
Succeeded == {i \in 1..Len(requests) : "thrown" \notin DOMAIN requests[i].result}

\* the result of the last successful compilation, null before the first one
LastSuccess ==
  IF Succeeded = {} THEN NoScore
  ELSE requests[CHOOSE i \in Succeeded : \A j \in Succeeded : j <= i].result

\* C19: when a compilation request fails with an exception, the App holds
\* the exception's message as its error, and the score on display and the
\* score loaded in the audio engine are the result of the last successful
\* compilation.
FailureKeepsScore ==
  (/\ stack = << >> /\ Len(requests) > 0
   /\ "thrown" \in DOMAIN requests[Len(requests)].result) =>
    /\ error = requests[Len(requests)].result.thrown
    /\ score = LastSuccess
    /\ engine.score = LastSuccess

\* a document compiled, then a document whose compilation throws
FailureAfterSuccess ==
  /\ stack = << >> /\ Len(requests) = 2
  /\ requests[1].code = MacroGraceSource
  /\ requests[2].code = ThrowSource
  /\ error = "Cannot read properties of undefined (reading 'forEach')"
  /\ score = requests[1].result /\ engine.score = requests[1].result
  /\ Len(score.timeline) = 3

\* C21: macro inlining is writing the body in place: with M defined as
\* `{ d f }` the stream `c $M e` gives the events of `c d f e`: the events
\* of the expansion start at the voice's current tick, each where the one
\* before it ended.
MacroInlining ==
  (Returned /\ source = "macro M = { d f } def pno measure 1 { pno: c $M e }") =>
    /\ Len(timeline) = 4
    /\ \A i \in 1..4 :
         /\ timeline[i].pitches = <<<<60, 62, 65, 64>>[i]>>
         /\ timeline[i].tickStart = (i - 1) * 1920
         /\ timeline[i].tickEnd = i * 1920

\* C22: an event written `p:D` lasts 4/D quarter notes, times 3/2 with one
\* dot and times 7/4 with two dots, and tickEnd - tickStart is that duration
\* times 1920: `c:8` is one event of 960 ticks, `c:4.` one of 2880 ticks and
\* `c:4..` one of 3360 ticks.  Durations are held in units of 1/DUR_SCALE
\* quarter note.
ExplicitDuration ==
  \A d \in {<<"8", 960>>, <<"4.", 2880>>, <<"4..", 3360>>} :
    (Returned /\ source = "def pno measure 1 { pno: c:" \o d[1] \o " }") =>
      /\ Len(timeline) = 1
      /\ timeline[1].duration * 1920 = d[2] * DUR_SCALE
      /\ timeline[1].tickStart = 0
      /\ timeline[1].tickEnd = d[2]

\* C23: a declaration records every recognized attribute on its
\* InstrumentDef: style, clef and patch as written, transpose as an integer,
\* vol and pan as numbers; a declaration without style has style standard.
DeclaredAttributes ==
  /\ (Returned /\ source = "def gtr \"Guitar\" style=tab clef=bass transpose=-12 "
                             \o "patch=nylon vol=2 pan=1") =>
       /\ Len(instruments) = 1
       /\ instruments[1].id = "gtr" /\ instruments[1].label = "Guitar"
       /\ instruments[1].style = TAB
       /\ instruments[1].clef = "bass"
       /\ instruments[1].patch = "nylon"
       /\ instruments[1].transpose = -12
       /\ instruments[1].vol = 2
       /\ instruments[1].pan = 1
  /\ (Returned /\ source = "def pno measure 1 { pno: c5 } measure 2 { pno: e }") =>
       instruments[1].style = STANDARD

\* C24: the sticky octave of a voice changes only when a pitch with an
\* explicit octave is resolved on it: a rest, a grace event, a pitch without
\* octave and an unrecognized pitch token leave the octave of the cursor as
\* it was.
OctaveKept ==
  [][(/\ Running("parseVoiceStream")
      /\ peek \in {"r", "e", "g", "c.grace", "zz"}
      /\ Top.inst.style = STANDARD) =>
       globalCursors'[Top.inst.id][Top.voiceId].octave
         = globalCursors[Top.inst.id][Top.voiceId].octave]_vars

\* C25: once the cursor of an instrument and voice exists it stays until the
\* compilation ends: no step of parse() removes it, whatever declarations
\* and measures follow.
CursorKept ==
  [][stack # << >> =>
       \A id \in DOMAIN globalCursors :
         /\ id \in DOMAIN globalCursors'
         /\ DOMAIN globalCursors[id] \subseteq DOMAIN globalCursors'[id]]_vars

\* the measure offset (m - 1) * ticksPerMeasure of the replay a voice stream
\* with the call stack st belongs to
MeasureOffset(st) == FMul(st[Len(st) - 2].m - 1, st[Len(st) - 2].ticksPerMeasure)

\* C26: every voice stream occurrence starts at local tick 0 with the
\* measure offset of its replay as base, and an event emitted at local tick
\* 0, the first event of the occurrence among them, starts at that offset
\* (a NaN offset gives a NaN tickStart), however far other voices, other
\* instruments or earlier measures advanced.
StreamStartsAtOffset ==
  [][/\ (Running("parseVoiceStream")' /\ Len(stack') = Len(stack) + 1) =>
          /\ stack'[Len(stack')].currentTick = 0
          /\ stack'[Len(stack')].baseTick = MeasureOffset(stack')
     /\ (/\ Running("parseVoiceStream") /\ Top.currentTick = 0
         /\ Len(timeline') > Len(timeline)) =>
          timeline'[Len(timeline) + 1].tickStart = MeasureOffset(stack)]_vars

\* two voices in the replay for measure 2: v1 has advanced in measure 1 and
\* in measure 2 before v2 starts, and the first events of both start at 7680
SecondVoiceAtOffset ==
  /\ Returned
  /\ source = "def pno measure 1-2 { pno: { v1: c5 e | v2: c.grace g } }"
  /\ \E i, j \in 1..Len(timeline) :
       /\ timeline[i].voiceId = "v1" /\ timeline[i].pitches = <<72>>
       /\ timeline[i].tickStart = 7680
       /\ timeline[j].voiceId = "v2" /\ timeline[j].pitches = <<67>>
       /\ timeline[j].tickStart = 7680

\* C27: with a time signature whose denominator is zero the measure driver
\* places the measures as for 4/4, 7680 ticks apart: after
\* `meta { time: "3/0" }` the events of measures 1 and 2 start at 0 and 7680
\* and every tickStart and tickEnd is a finite non-negative integer.
ZeroDenominatorTicks ==
  (Returned /\ source = ZeroDenominatorSource) =>
    /\ Len(timeline) = 2
    /\ \A i \in 1..2 :
         /\ IsFinite(timeline[i].tickStart) /\ IsFinite(timeline[i].tickEnd)
         /\ timeline[i].tickStart = (i - 1) * 7680
         /\ timeline[i].tickEnd = (i - 1) * 7680 + 1920

\* C28: parseMetaBlock consumes tokens up to and including the first `}`
\* after its opening `{` and no further, also when a key of the block has no
\* value: the def and the measure that follow `meta { title }` take effect.
MetaBlockEnds ==
  (Returned /\ source = "meta { title } def pno measure 1 { pno: c }") =>
    /\ Len(instruments) = 1 /\ instruments[1].id = "pno"
    /\ Len(timeline) = 1 /\ timeline[1].pitches = <<60>>

\* C29: expanding a macro terminates, also when its body refers to the macro
\* itself or to another macro: the one step of the voice stream that handles
\* the reference adds at most one event for each token of the stored body,
\* starts no further expansion and hands control back to the stream at the
\* next token.
ExpansionBounded ==
  [][\A name \in DOMAIN macros :
       (Running("parseVoiceStream") /\ peek = "$" \o name) =>
         /\ Len(timeline') <= Len(timeline) + Len(REGEX_TOKEN(macros[name].body))
         /\ SubSeq(timeline', 1, Len(timeline)) = timeline
         /\ tokenIndex' = tokenIndex + 1
         /\ Len(stack') = Len(stack) /\ Running("parseVoiceStream")']_vars

\* macros that refer to themselves and to each other, expanded: M gives c,
\* a note for `$M` and e; A gives a note for `$B`; B gives a note for `$A`
\* and d
RecursiveMacrosExpanded ==
  /\ Returned
  /\ source = "macro M = { c $M e } macro A = { $B } macro B = { $A d | } "
                \o "def pno measure 1 { pno: $M $A $B g }"
  /\ DOMAIN macros = {"M", "A", "B"}
  /\ Len(timeline) = 7

\* C30: parse() is idempotent on one parser: a second call returns a score
\* with the instruments, the timeline and the durationTicks the first call
\* returned.
Idempotent ==
  (Returned /\ returned # << >>) =>
    /\ instruments = returned[1].instruments
    /\ timeline = returned[1].timeline
    /\ durationTicks = returned[1].durationTicks

(***************************************************************************)
(* AudioEngine: scheduling across play() and pause()                       *)
(***************************************************************************)
\* C31: across any sequence of play() and pause() calls with no stop() or
\* loadScore() in between, no timeline event is passed to scheduleNote more
\* than once: no index is scheduled again since the last stop() or
\* loadScore()
ScheduledOnce == scheduled.again = {}

\* the other half of C31: events are scheduled in timeline order, that is
\* nextNoteIndex never decreases in a step of play(), of pause() or of a
\* timer callback that leaves the engine playing
ScheduledInOrder ==
  [][(Play \/ Pause \/ (TimerFires /\ engine'.isPlaying)) =>
       engine'.nextNoteIndex >= engine.nextNoteIndex]_vars

\* C32: after pause() at tick t followed by play(), playback resumes from t:
\* the tick reported through onTick never decreases in a step of play(), of
\* pause() or of a timer callback that leaves the engine playing (it goes
\* back only by stop() or loadScore())
ReportedTickKept ==
  [][(Play \/ Pause \/ (TimerFires /\ engine'.isPlaying)) =>
       currentTick' >= currentTick]_vars

(***************************************************************************)
(* AudioEngine: timers                                                     *)
(***************************************************************************)
\* C33: in every reachable state, under any interleaving of play(), pause(),
\* stop(), loadScore() and timer callbacks, at most one scheduler callback is
\* pending and none is pending while isPlaying is false (so play() on a
\* playing engine starts no second scheduler loop)
OneSchedulerLoop ==
  /\ Cardinality(pending) <= 1
  /\ ~engine.isPlaying => pending = {}

\* the engine plays with its one timer pending, after a pause() and a second
\* play() (an event is scheduled again), timer callbacks and a loadScore()
OneLoopAfterResume ==
  /\ engine.isPlaying
  /\ pending = {engine.timerID}
  /\ scheduled.again # {}
  /\ elapsed > 1
  /\ Len(requests) = 2

(***************************************************************************)
(* AudioEngine: auto-stop                                                  *)
(***************************************************************************)
\* C34: when play() has started playback of a loaded score with a positive
\* tempo and neither pause() nor stop() is called, then, the clock advancing
\* and the timer firing, playback stops by itself once the tick exceeds
\* durationTicks + 1920: a playing engine is, sooner or later, not playing
AutoStop == engine.isPlaying ~> ~engine.isPlaying

====
